---------------------------- MODULE Spec2Model ----------------------------
(***************************************************************************)
(* AMASS_G1_Viewer: the archive explorer (scripts/data_explorer.py) and    *)
(* the action analyzer (scripts/action_analyzer.py).                       *)
(*                                                                         *)
(* Names (of datasets, subjects and files) are sequences of one-character  *)
(* strings, so that substring tests, lower-casing and name order are       *)
(* computed and not assumed.  A directory is the sequence of its entries   *)
(* in the order the file system enumerates them (Path.iterdir / glob give  *)
(* that order, which need not be name order).                              *)
(***************************************************************************)
EXTENDS Integers, Sequences, FiniteSets, TLC

VARIABLES
    root,       \* what data_root is on disk: "dir", "missing" or "file"
    fs,         \* the entries of data_root, in enumeration order
    datasets,   \* AMASSDataExplorer.datasets (a dict: pairs in insertion order)
    pc,         \* where scan_datasets stands: "idle", "root", "dataset", "subject"
    di,         \* scan_datasets: entries of data_root taken so far
    si,         \* scan_datasets: entries of the current dataset directory taken so far
    fi,         \* scan_datasets: files of the current subject taken so far
    warnings,   \* paths for which scan_datasets printed a read warning
    raised,     \* an exception left the last operation
    out,        \* what the last operation printed or collected
    hist        \* whether a call of scan_datasets on this explorer has returned,
                \* and the index the first such call returned

vars == <<root, fs, datasets, pc, di, si, fi, warnings, raised, out, hist>>

-----------------------------------------------------------------------------
(* Bounds of the model *)

\* entries (directories and files) the archive holds at most
MaxEntries == 5

-----------------------------------------------------------------------------
(* Characters and names *)

UpperChars == <<"A","B","C","D","E","F","G","H","I","J","K","L","M",
                "N","O","P","Q","R","S","T","U","V","W","X","Y","Z">>
LowerChars == <<"a","b","c","d","e","f","g","h","i","j","k","l","m",
                "n","o","p","q","r","s","t","u","v","w","x","y","z">>
\* the other characters of names, below and between the letters in code order
LowChars   == <<".","0","1","2","3","4","5","6","7","8","9">>
MidChars   == <<"_">>

\* code-point order of the characters used in names
CharOrder == LowChars \o UpperChars \o MidChars \o LowerChars

Ord(c) == CHOOSE i \in 1..Len(CharOrder) : CharOrder[i] = c

\* str.lower() on one character
LowerChar(c) ==
    IF \E i \in 1..Len(UpperChars) : UpperChars[i] = c
    THEN LowerChars[CHOOSE i \in 1..Len(UpperChars) : UpperChars[i] = c]
    ELSE c

\* str.lower()
Lower(s) == [i \in 1..Len(s) |-> LowerChar(s[i])]

\* Python's  p in s  on strings
Contains(s, p) ==
    \E i \in 0..(Len(s) - Len(p)) : SubSeq(s, i + 1, i + Len(p)) = p

\* Python's  a < b  on strings: lexicographic by code point
RECURSIVE StrLess(_, _)
StrLess(a, b) ==
    IF b = <<>> THEN FALSE
    ELSE IF a = <<>> THEN TRUE
    ELSE IF a[1] # b[1] THEN Ord(a[1]) < Ord(b[1])
    ELSE StrLess(Tail(a), Tail(b))

StrLeq(a, b) == a = b \/ StrLess(a, b)

NpzSuffix == <<".","n","p","z">>

\* the glob pattern "*.npz" against an entry name
MatchesNpz(name) ==
    /\ Len(name) >= Len(NpzSuffix)
    /\ SubSeq(name, Len(name) - Len(NpzSuffix) + 1, Len(name)) = NpzSuffix

-----------------------------------------------------------------------------
(* The archive on disk *)

\* what np.load and the two keys give for a file: loads = FALSE is a corrupt
\* file, has_fps / has_body = FALSE a missing key
NoContent == [loads |-> FALSE, has_fps |-> FALSE, fps |-> 0,
              has_body |-> FALSE, frames |-> 0, size |-> 0]

DirEntry(name) == [name |-> name, isdir |-> TRUE, content |-> NoContent, kids |-> <<>>]

FileEntry(name, c) == [name |-> name, isdir |-> FALSE, content |-> c, kids |-> <<>>]

\* Path.iterdir()
IterDir(kids) == kids

\* the index of the entry called name in a directory, 0 when absent
IndexOf(kids, name) ==
    IF \E i \in 1..Len(kids) : kids[i].name = name
    THEN CHOOSE i \in 1..Len(kids) : kids[i].name = name
    ELSE 0

\* a file handle as pathlib gives it: the path from data_root and its last part
PathOf(prefix, name) == [path |-> Append(prefix, name), name |-> name]

\* Path.glob("*.npz") of a directory whose path is prefix
Glob(prefix, kids) ==
    LET hit == SelectSeq(kids, LAMBDA e : MatchesNpz(e.name))
    IN  [i \in 1..Len(hit) |-> PathOf(prefix, hit[i].name)]

RECURSIVE Flatten(_)
Flatten(ss) == IF ss = <<>> THEN <<>> ELSE Head(ss) \o Flatten(Tail(ss))

\* Path.rglob("*.npz"): the directory's own matches, then those of each
\* subdirectory in enumeration order
RECURSIVE Rglob(_, _)
Rglob(prefix, kids) ==
    LET dirs == SelectSeq(kids, LAMBDA e : e.isdir)
    IN  Glob(prefix, kids) \o
        Flatten([i \in 1..Len(dirs) |->
                    Rglob(Append(prefix, dirs[i].name), dirs[i].kids)])

\* the entry at a path below data_root (the path exists)
RECURSIVE EntryAt(_, _)
EntryAt(kids, path) ==
    LET e == kids[IndexOf(kids, Head(path))]
    IN  IF Len(path) = 1 THEN e ELSE EntryAt(e.kids, Tail(path))

\* the number of entries below a directory
RECURSIVE CountEntries(_)
CountEntries(kids) ==
    IF kids = <<>> THEN 0
    ELSE 1 + CountEntries(Head(kids).kids) + CountEntries(Tail(kids))


\* the paths of the directories below data_root (data_root itself is <<>>)
RECURSIVE DirPaths(_, _)
DirPaths(prefix, kids) ==
    {prefix} \cup
    UNION { DirPaths(Append(prefix, kids[i].name), kids[i].kids) :
              i \in {j \in 1..Len(kids) : kids[j].isdir} }

\* the directory listing at a directory path
RECURSIVE KidsAt(_, _)
KidsAt(kids, dirPath) ==
    IF dirPath = <<>> THEN kids
    ELSE KidsAt(kids[IndexOf(kids, Head(dirPath))].kids, Tail(dirPath))

\* the archive with one more entry, enumerated last in its directory
RECURSIVE AddAt(_, _, _)
AddAt(kids, dirPath, entry) ==
    IF dirPath = <<>> THEN Append(kids, entry)
    ELSE [kids EXCEPT ![IndexOf(kids, Head(dirPath))].kids =
                          AddAt(@, Tail(dirPath), entry)]

-----------------------------------------------------------------------------
(* The names and file contents the model draws from *)

DatasetNames == { <<"A">>, <<"B">> }

SubjectNames == { <<"s","1">>, <<"s","2">> }

\* motion files of the explorer's archive, and one file glob("*.npz") skips
MotionNames == { <<"a",".","n","p","z">>, <<"b",".","n","p","z">> }

OtherNames == { <<"n",".","t","x","t">> }

\* a corrupt file (np.load raises), a file whose fps is 0, and readable
\* files of 0 s and 2 s
Contents ==
    { NoContent,
      [loads |-> TRUE, has_fps |-> TRUE,  fps |-> 0,  has_body |-> TRUE, frames |-> 60, size |-> 2097152],
      [loads |-> TRUE, has_fps |-> TRUE,  fps |-> 30, has_body |-> TRUE, frames |-> 0,  size |-> 1048576],
      [loads |-> TRUE, has_fps |-> TRUE,  fps |-> 30, has_body |-> TRUE, frames |-> 60, size |-> 2097152] }

-----------------------------------------------------------------------------
(* Outputs *)

NoOutput == [op |-> "none"]

\* the archive is laid out before the tools are first used
Populating == root = "dir" /\ pc = "idle" /\ datasets = <<>> /\ out = NoOutput

\* a directory appears in the directory at dirPath
Mkdir(dirPath, name) ==
    /\ Populating
    /\ CountEntries(fs) < MaxEntries
    /\ dirPath \in DirPaths(<<>>, fs)
    /\ IndexOf(KidsAt(fs, dirPath), name) = 0
    /\ fs' = AddAt(fs, dirPath, DirEntry(name))
    /\ UNCHANGED <<root, hist, datasets, pc, di, si, fi, warnings, raised, out>>

\* a file appears in the directory at dirPath
CreateFile(dirPath, name, c) ==
    /\ Populating
    /\ CountEntries(fs) < MaxEntries
    /\ dirPath \in DirPaths(<<>>, fs)
    /\ IndexOf(KidsAt(fs, dirPath), name) = 0
    /\ fs' = AddAt(fs, dirPath, FileEntry(name, c))
    /\ UNCHANGED <<root, hist, datasets, pc, di, si, fi, warnings, raised, out>>

-----------------------------------------------------------------------------
(* Numbers: durations and sizes are quotients, kept exact *)

Quot(n, d) == [num |-> n, den |-> d]

\* float('inf')
Inf == Quot(1, 0)

\* a <= b on quotients with denominators >= 0 (denominator 0 is infinity)
QLeq(a, b) ==
    IF b.den = 0 THEN TRUE
    ELSE IF a.den = 0 THEN FALSE
    ELSE a.num * b.den <= b.num * a.den

RECURSIVE SumSeq(_)
SumSeq(s) == IF s = <<>> THEN 0 ELSE Head(s) + SumSeq(Tail(s))

-----------------------------------------------------------------------------
(* AMASSDataExplorer *)

\* d[key] = val on a dict: a present key keeps its place, a new one goes last
DictSet(d, key, val) ==
    IF IndexOf(d, key) # 0 THEN [d EXCEPT ![IndexOf(d, key)] = val]
    ELSE Append(d, val)

\* key in d
DictHas(d, key) == IndexOf(d, key) # 0

\* d[key]
DictGet(d, key) == d[IndexOf(d, key)]

NewDataset(name) ==
    [name |-> name, path |-> <<name>>, subjects |-> <<>>,
     total_files |-> 0, total_frames |-> 0, file_sizes |-> <<>>]

NewSubject(dsName, name, files) ==
    [name |-> name, path |-> <<dsName, name>>, files |-> files,
     file_count |-> Len(files), frames |-> <<>>, durations |-> <<>>,
     file_sizes |-> <<>>]

\* the body of the try block raises: np.load fails, a key is missing, or
\* the division by fps is a division by zero
ReadRaises(c) ==
    \/ ~c.loads
    \/ ~c.has_fps
    \/ ~c.has_body
    \/ c.fps = 0

FileSizeMB(c) == Quot(c.size, 1024 * 1024)

\* the dataset and subject the scan is in
CurDataset == fs[di]
CurSubjectEntry == CurDataset.kids[si]
CurSubject == DictGet(DictGet(datasets, CurDataset.name).subjects, CurSubjectEntry.name)

\* the try block succeeded for a file with content c: the six updates
RecordFile(ds, subjName, c) ==
    LET sj  == DictGet(ds.subjects, subjName)
        sj2 == [sj EXCEPT !.frames     = Append(@, c.frames),
                          !.durations  = Append(@, Quot(c.frames, c.fps)),
                          !.file_sizes = Append(@, FileSizeMB(c))]
    IN  [ds EXCEPT !.subjects     = DictSet(@, subjName, sj2),
                   !.total_files  = @ + 1,
                   !.total_frames = @ + c.frames,
                   !.file_sizes   = Append(@, FileSizeMB(c))]

\* scan_datasets is called
ScanBegin ==
    /\ pc = "idle"
    /\ IF root = "dir"
       THEN /\ pc' = "root"
            /\ raised' = FALSE
            /\ out' = [op |-> "scan_datasets", status |-> "running"]
       ELSE \* iterdir() raises
            /\ pc' = "idle"
            /\ raised' = TRUE
            /\ out' = [op |-> "scan_datasets", status |-> "raised"]
    /\ di' = 0 /\ si' = 0 /\ fi' = 0
    /\ warnings' = <<>>
    /\ UNCHANGED <<root, hist, fs, datasets>>

\* the outer loop with setdefault in place of the assignment: the entry a
\* previous call left for the dataset is kept
ScanDataset_keepsEntry ==
    /\ pc = "root"
    /\ di < Len(IterDir(fs))
    /\ di' = di + 1
    /\ si' = 0
    /\ LET e == IterDir(fs)[di + 1]
       IN  IF e.isdir
           THEN /\ datasets' = IF DictHas(datasets, e.name) THEN datasets
                                ELSE DictSet(datasets, e.name, NewDataset(e.name))
                /\ pc' = "dataset"
           ELSE UNCHANGED <<datasets, pc>>
    /\ UNCHANGED <<root, hist, fs, fi, warnings, raised, out>>

\* the outer loop takes the next entry of data_root
ScanDataset ==
    /\ pc = "root"
    /\ di < Len(IterDir(fs))
    /\ di' = di + 1
    /\ si' = 0
    /\ LET e == IterDir(fs)[di + 1]
       IN  IF e.isdir
           THEN /\ datasets' = DictSet(datasets, e.name, NewDataset(e.name))
                /\ pc' = "dataset"
           ELSE UNCHANGED <<datasets, pc>>
    /\ UNCHANGED <<root, hist, fs, fi, warnings, raised, out>>

\* the middle loop takes the next entry of the dataset directory
ScanSubject ==
    /\ pc = "dataset"
    /\ si < Len(IterDir(CurDataset.kids))
    /\ si' = si + 1
    /\ fi' = 0
    /\ LET e     == IterDir(CurDataset.kids)[si + 1]
           files == Glob(<<CurDataset.name, e.name>>, e.kids)
           ds    == DictGet(datasets, CurDataset.name)
       IN  IF e.isdir /\ files # <<>>
           THEN /\ datasets' = DictSet(datasets, ds.name,
                                  [ds EXCEPT !.subjects =
                                      DictSet(@, e.name, NewSubject(ds.name, e.name, files))])
                /\ pc' = "subject"
           ELSE UNCHANGED <<datasets, pc>>
    /\ UNCHANGED <<root, hist, fs, di, warnings, raised, out>>

\* the except clause missing: the exception leaves scan_datasets
OnReadFailure_propagates(file) ==
    /\ raised' = TRUE
    /\ pc' = "idle"
    /\ out' = [op |-> "scan_datasets", status |-> "raised"]
    /\ UNCHANGED <<datasets, warnings>>

\* the frames appended before the statement that raises: the exception
\* leaves the subject's frames list one entry longer
OnReadFailure_afterAppend(file) ==
    /\ warnings' = Append(warnings, file.path)
    /\ LET ds == DictGet(datasets, CurDataset.name)
           sj == DictGet(ds.subjects, CurSubjectEntry.name)
       IN  datasets' = DictSet(datasets, ds.name,
                          [ds EXCEPT !.subjects = DictSet(@, sj.name,
                              [sj EXCEPT !.frames =
                                  Append(@, EntryAt(fs, file.path).content.frames)])])
    /\ UNCHANGED <<pc, raised, out>>

\* the except clause: the warning is printed and the loop goes on
OnReadFailure(file) ==
    /\ warnings' = Append(warnings, file.path)
    /\ UNCHANGED <<datasets, pc, raised, out>>

\* the inner loop takes the next file of the subject
ScanFile ==
    /\ pc = "subject"
    /\ fi < Len(CurSubject.files)
    /\ fi' = fi + 1
    /\ LET file == CurSubject.files[fi + 1]
           c    == EntryAt(fs, file.path).content
           ds   == DictGet(datasets, CurDataset.name)
       IN  IF ReadRaises(c)
           THEN OnReadFailure(file)
           ELSE /\ datasets' = DictSet(datasets, ds.name,
                                       RecordFile(ds, CurSubjectEntry.name, c))
                /\ UNCHANGED <<warnings, pc, raised, out>>
    /\ UNCHANGED <<root, hist, fs, di, si>>

\* the inner loop is exhausted
ScanSubjectDone ==
    /\ pc = "subject"
    /\ fi = Len(CurSubject.files)
    /\ pc' = "dataset"
    /\ UNCHANGED <<root, hist, fs, datasets, di, si, fi, warnings, raised, out>>

\* the middle loop is exhausted
ScanDatasetDone ==
    /\ pc = "dataset"
    /\ si = Len(IterDir(CurDataset.kids))
    /\ pc' = "root"
    /\ UNCHANGED <<root, hist, fs, datasets, di, si, fi, warnings, raised, out>>

\* the outer loop is exhausted: return self.datasets
ScanReturn ==
    /\ pc = "root"
    /\ di = Len(IterDir(fs))
    /\ pc' = "idle"
    /\ out' = [op |-> "scan_datasets", status |-> "returned"]
    /\ hist' = IF hist.returned THEN hist ELSE [returned |-> TRUE, first |-> datasets]
    /\ UNCHANGED <<root, fs, datasets, di, si, fi, warnings, raised>>

-----------------------------------------------------------------------------
(* The explorer's queries.  main() scans and then runs one query; a query    *)
(* only reads the index, so one query after each scan shows every result a  *)
(* longer series of queries can show, and a query on a never-scanned        *)
(* explorer sees what a scan of an empty archive leaves.                    *)

Scanned == pc = "idle" /\ out = [op |-> "scan_datasets", status |-> "returned"]

\* sorted(rows, key=duration): stable, ascending
RECURSIVE SortByDuration(_)
SortByDuration(rows) ==
    IF rows = <<>> THEN <<>>
    ELSE LET n    == Len(rows)
             init == SortByDuration(SubSeq(rows, 1, n - 1))
             x    == rows[n]
             k    == Cardinality({i \in 1..Len(init) : QLeq(init[i].duration, x.duration)})
         IN  SubSeq(init, 1, k) \o <<x>> \o SubSeq(init, k + 1, Len(init))

\* sorted(self.datasets.items()): by name, the keys being distinct
RECURSIVE SortByName(_)
SortByName(rows) ==
    IF rows = <<>> THEN <<>>
    ELSE LET n    == Len(rows)
             init == SortByName(SubSeq(rows, 1, n - 1))
             x    == rows[n]
             k    == Cardinality({i \in 1..Len(init) : StrLeq(init[i].name, x.name)})
         IN  SubSeq(init, 1, k) \o <<x>> \o SubSeq(init, k + 1, Len(init))

\* the sample rate print_summary assumes for its estimated durations
NominalFps == 120

\* print_summary
PrintSummary ==
    /\ Scanned
    /\ out' = [op |-> "print_summary",
               total_datasets |-> Len(datasets),
               total_files  |-> SumSeq([i \in 1..Len(datasets) |-> datasets[i].total_files]),
               total_frames |-> SumSeq([i \in 1..Len(datasets) |-> datasets[i].total_frames]),
               estimated |-> Quot(SumSeq([i \in 1..Len(datasets) |-> datasets[i].total_frames]),
                                  NominalFps),
               rows |-> SortByName([i \in 1..Len(datasets) |->
                           [name |-> datasets[i].name,
                            total_files |-> datasets[i].total_files,
                            total_frames |-> datasets[i].total_frames,
                            avg_duration |->
                               IF datasets[i].total_files > 0
                               THEN Quot(datasets[i].total_frames, NominalFps)
                               ELSE Quot(0, 1)]])]
    /\ UNCHANGED <<root, hist, fs, datasets, pc, di, si, fi, warnings, raised>>

\* np.mean of a list of quotients; of the empty list it is nan (and a warning)
NaN == Quot(0, 0)

\* a + b on quotients
QAdd(a, b) ==
    IF a.den = b.den THEN Quot(a.num + b.num, a.den)
    ELSE Quot(a.num * b.den + b.num * a.den, a.den * b.den)

RECURSIVE QSum(_)
QSum(qs) ==
    IF Len(qs) = 1 THEN Head(qs) ELSE QAdd(Head(qs), QSum(Tail(qs)))

Mean(qs) ==
    IF qs = <<>> THEN NaN
    ELSE Quot(QSum(qs).num, QSum(qs).den * Len(qs))

\* s[:n]
Prefix(s, n) == SubSeq(s, 1, IF Len(s) < n THEN Len(s) ELSE n)

\* the lines explore_dataset prints for one subject
SubjectSummary(sj) ==
    [subject |-> sj.name,
     file_count |-> sj.file_count,
     total_frames |-> SumSeq(sj.frames),
     mean_duration |-> Mean(sj.durations),
     mean_size |-> Mean(sj.file_sizes),
     files |-> [i \in 1..Len(Prefix(sj.files, 3)) |-> sj.files[i].name],
     more |-> IF Len(sj.files) > 3 THEN Len(sj.files) - 3 ELSE 0]

\* the mean as sum(list) / len(list): of an empty list a ZeroDivisionError
MeanRaises_plainDivision(qs) == qs = <<>>

\* np.mean(list) raises: it does not; of an empty list it warns (RuntimeWarning,
\* printed under the default filters) and gives nan
MeanRaises(qs) == FALSE

\* the subjects explore_dataset gets through: all of them, or those before
\* the first one whose lines raise
RECURSIVE Reported(_)
Reported(subjects) ==
    IF subjects = <<>> THEN <<>>
    ELSE IF MeanRaises(Head(subjects).durations) \/ MeanRaises(Head(subjects).file_sizes)
    THEN <<>>
    ELSE <<Head(subjects)>> \o Reported(Tail(subjects))

\* explore_dataset(dataset_name, max_subjects)
ExploreDataset(dataset_name, max_subjects) ==
    /\ Scanned
    /\ IF ~DictHas(datasets, dataset_name)
       THEN /\ out' = [op |-> "explore_dataset", dataset |-> dataset_name,
                       max_subjects |-> max_subjects,
                       status |-> "not_found", rows |-> <<>>]
            /\ UNCHANGED raised
       ELSE LET subjects == Prefix(DictGet(datasets, dataset_name).subjects, max_subjects)
                reported == Reported(subjects)
            IN  /\ out' = [op |-> "explore_dataset", dataset |-> dataset_name,
                           max_subjects |-> max_subjects,
                           status |-> IF reported = subjects THEN "shown" ELSE "raised",
                           rows |-> [i \in 1..Len(reported) |-> SubjectSummary(reported[i])]]
                /\ raised' = (reported # subjects)
    /\ UNCHANGED <<root, hist, fs, datasets, pc, di, si, fi, warnings>>

\* a duration_range argument: None, or the pair (lo, hi)
NoRange == [none |-> TRUE, lo |-> Quot(0, 1), hi |-> Inf]

Range(lo, hi) == [none |-> FALSE, lo |-> lo, hi |-> hi]

\* duration_range is None or (duration_range[0] <= duration <= duration_range[1])
InRange(range, duration) ==
    range.none \/ (QLeq(range.lo, duration) /\ QLeq(duration, range.hi))

\* the rows find_similar_motions collects for one subject
SubjectMotions(sj, range) ==
    LET hit == SelectSeq([i \in 1..Len(sj.durations) |-> i],
                         LAMBDA i : InRange(range, sj.durations[i]))
    IN  [k \in 1..Len(hit) |->
            [subject |-> sj.name,
             file |-> sj.files[hit[k]].name,
             duration |-> sj.durations[hit[k]],
             frames |-> sj.frames[hit[k]],
             file_size |-> sj.file_sizes[hit[k]]]]

\* the motions list, in the order of the subjects dict
Motions(ds, range) ==
    Flatten([j \in 1..Len(ds.subjects) |-> SubjectMotions(ds.subjects[j], range)])

\* what find_similar_motions prints
FindResult(dataset_name, range) ==
    IF ~DictHas(datasets, dataset_name)
    THEN [status |-> "not_found", rows |-> <<>>]
    ELSE LET motions == Motions(DictGet(datasets, dataset_name), range)
         IN  IF motions # <<>>
             THEN [status |-> "found", rows |-> SortByDuration(motions)]
             ELSE [status |-> "empty", rows |-> <<>>]

\* an optional float of the command line: absent (None) or a value
NoArg == [given |-> FALSE, val |-> 0]

Arg(v) == [given |-> TRUE, val |-> v]

\* x or default: None and 0.0 are both falsy
OrElse(arg, default) ==
    IF arg.given /\ arg.val # 0 THEN Quot(arg.val, 1) ELSE default

\* main(), action "find": the duration_range built from the two options
MainRange(dmin, dmax) ==
    IF dmin.given \/ dmax.given
    THEN Range(OrElse(dmin, Quot(0, 1)), OrElse(dmax, Inf))
    ELSE NoRange

\* find_similar_motions(dataset_name, duration_range)
FindSimilarMotions(dataset_name, range) ==
    /\ Scanned
    /\ out' = [op |-> "find_similar_motions", dataset |-> dataset_name,
               range |-> range,
               status |-> FindResult(dataset_name, range).status,
               rows |-> FindResult(dataset_name, range).rows]
    /\ UNCHANGED <<root, hist, fs, datasets, pc, di, si, fi, warnings, raised>>

\* main --action find --dataset D [--duration_min m] [--duration_max M],
\* after its scan
MainFind(dataset_name, dmin, dmax) ==
    /\ Scanned
    /\ out' = [op |-> "main_find", dataset |-> dataset_name,
               duration_min |-> dmin, duration_max |-> dmax,
               status |-> FindResult(dataset_name, MainRange(dmin, dmax)).status,
               rows |-> FindResult(dataset_name, MainRange(dmin, dmax)).rows]
    /\ UNCHANGED <<root, hist, fs, datasets, pc, di, si, fi, warnings, raised>>

\* the sample rate export_summary_csv writes into every row
ExportFps == 120

\* the rows export_summary_csv builds for one subject: one for each entry of
\* files (the lists are long enough)
SubjectExport(ds, sj) ==
    [i \in 1..Len(sj.files) |->
        [dataset |-> ds.name,
         subject |-> sj.name,
         filename |-> sj.files[i].name,
         filepath |-> sj.files[i].path,
         frames |-> sj.frames[i],
         duration |-> sj.durations[i],
         file_size_mb |-> sj.file_sizes[i],
         fps |-> ExportFps]]

\* subject_info['frames'][i] raises IndexError for some file of the index
ExportRaises ==
    \E d \in 1..Len(datasets) : \E j \in 1..Len(datasets[d].subjects) :
       Len(datasets[d].subjects[j].frames) < Len(datasets[d].subjects[j].files)

\* export_summary_csv: the frame is written when every row has been built
ExportSummaryCsv ==
    /\ Scanned
    /\ IF ExportRaises
       THEN /\ out' = [op |-> "export_summary_csv", status |-> "raised", rows |-> <<>>]
            /\ raised' = TRUE
       ELSE /\ out' = [op |-> "export_summary_csv", status |-> "exported",
                       rows |-> Flatten([d \in 1..Len(datasets) |->
                                   Flatten([j \in 1..Len(datasets[d].subjects) |->
                                      SubjectExport(datasets[d], datasets[d].subjects[j])])])]
            /\ UNCHANGED raised
    /\ UNCHANGED <<root, hist, fs, datasets, pc, di, si, fi, warnings>>

\* the seconds the model's queries name
DurationArgs == {0, 2}

RangeArgs ==
    {NoRange} \cup
    {Range(Quot(lo, 1), hi) : lo \in DurationArgs,
                              hi \in {Quot(h, 1) : h \in DurationArgs} \cup {Inf}}

OptionArgs == {NoArg} \cup {Arg(v) : v \in DurationArgs}

SubjectLimits == {1, 5}

-----------------------------------------------------------------------------
(* The explorer's specification *)

Init ==
    /\ root \in {"dir", "missing", "file"}
    /\ fs = <<>>
    /\ datasets = <<>>
    /\ pc = "idle"
    /\ di = 0 /\ si = 0 /\ fi = 0
    /\ warnings = <<>>
    /\ raised = FALSE
    /\ out = NoOutput
    /\ hist = [returned |-> FALSE, first |-> <<>>]

\* the layout  data_root/<dataset>/<subject>/<file>, and stray files
Populate ==
    \/ \E n \in DatasetNames : Mkdir(<<>>, n)
    \/ \E d \in DatasetNames, n \in SubjectNames : Mkdir(<<d>>, n)
    \/ \E d \in DatasetNames, s \in SubjectNames, n \in MotionNames, c \in Contents :
          CreateFile(<<d, s>>, n, c)
    \/ \E d \in DatasetNames, s \in SubjectNames, n \in OtherNames :
          CreateFile(<<d, s>>, n, NoContent)
    \/ \E n \in OtherNames : CreateFile(<<>>, n, NoContent)
    \/ \E d \in DatasetNames, n \in OtherNames : CreateFile(<<d>>, n, NoContent)

Scan ==
    \/ ScanBegin
    \/ ScanDataset
    \/ ScanSubject
    \/ ScanFile
    \/ ScanSubjectDone
    \/ ScanDatasetDone
    \/ ScanReturn

Query ==
    \/ PrintSummary
    \/ ExportSummaryCsv
    \/ \E d \in DatasetNames, m \in SubjectLimits : ExploreDataset(d, m)
    \/ \E d \in DatasetNames, r \in RangeArgs : FindSimilarMotions(d, r)
    \/ \E d \in DatasetNames, lo \in OptionArgs, hi \in OptionArgs : MainFind(d, lo, hi)

Next == Populate \/ Scan \/ Query

Spec == Init /\ [][Next]_vars

-----------------------------------------------------------------------------
(* ActionAnalyzer *)

\* self.action_patterns, in declaration order (a dict keeps it)
action_patterns ==
  <<
     [category |-> "dance", patterns |-> <<
        <<"d","a","n","c","e">>,
        <<"f","l","a","m","e","n","c","o">>,
        <<"s","a","l","s","a">>,
        <<"b","a","c","h","a","t","a">>,
        <<"r","e","g","g","a","e","t","o","n">>,
        <<"k","a","r","s","i","l","a","m","a","s">>,
        <<"z","e","i","m","p","e","k","i","k","o">>,
        <<"h","a","s","a","p","i","k","o">>,
        <<"m","a","l","e","v","i","z","i","o","t","i","k","o","s">>,
        <<"h","a","n","i","o","t","i","k","o","s">>
     >>],
     [category |-> "emotion", patterns |-> <<
        <<"h","a","p","p","y">>,
        <<"s","a","d">>,
        <<"a","n","g","r","y">>,
        <<"t","i","r","e","d">>,
        <<"e","x","c","i","t","e","d">>,
        <<"a","f","r","a","i","d">>,
        <<"a","n","n","o","y","e","d">>,
        <<"n","e","r","v","o","u","s">>,
        <<"s","c","a","r","y">>,
        <<"s","a","t","i","s","f","i","e","d">>
     >>],
     [category |-> "daily", patterns |-> <<
        <<"w","a","l","k">>,
        <<"r","u","n">>,
        <<"j","u","m","p">>,
        <<"s","i","t">>,
        <<"s","t","a","n","d">>,
        <<"r","e","a","c","h">>,
        <<"g","r","a","b">>,
        <<"t","h","r","o","w">>,
        <<"c","a","t","c","h">>
     >>],
     [category |-> "sport", patterns |-> <<
        <<"b","a","s","k","e","t","b","a","l","l">>,
        <<"f","o","o","t","b","a","l","l">>,
        <<"t","e","n","n","i","s">>,
        <<"s","w","i","m","m","i","n","g">>,
        <<"b","o","x","i","n","g">>,
        <<"k","i","c","k">>,
        <<"p","u","n","c","h">>
     >>],
     [category |-> "gesture", patterns |-> <<
        <<"w","a","v","e">>,
        <<"p","o","i","n","t">>,
        <<"c","l","a","p">>,
        <<"s","h","a","k","e">>,
        <<"n","o","d">>,
        <<"b","o","w">>
     >>],
     [category |-> "other", patterns |-> <<
        <<"m","i","x">>,
        <<"m","u","s","i","c","a","l">>,
        <<"t","h","e","a","t","e","r">>,
        <<"p","e","r","f","o","r","m","a","n","c","e">>
     >>]
  >>

\* the inner loop over the patterns of one category, from pattern i on: it
\* stops at the first pattern that occurs in the file name
RECURSIVE PatternHit(_, _, _)
PatternHit(patterns, i, filename) ==
    IF i > Len(patterns) THEN FALSE
    ELSE IF Contains(filename, patterns[i]) THEN TRUE
    ELSE PatternHit(patterns, i + 1, filename)

\* no category matched
NotCategorized == "(none)"

\* the latest category that matches, where the code takes the earliest
RECURSIVE FirstCategory_lastMatch(_, _)
FirstCategory_lastMatch(filename, k) ==
    IF k > Len(action_patterns) THEN NotCategorized
    ELSE LET later == FirstCategory_lastMatch(filename, k + 1)
         IN  IF later # NotCategorized THEN later
             ELSE IF PatternHit(action_patterns[k].patterns, 1, filename)
             THEN action_patterns[k].category
             ELSE NotCategorized

\* the outer loop of _extract_action_info over the categories, from category
\* k on: it stops at the first category one of whose patterns hit
RECURSIVE FirstCategory(_, _)
FirstCategory(filename, k) ==
    IF k > Len(action_patterns) THEN NotCategorized
    ELSE IF PatternHit(action_patterns[k].patterns, 1, filename)
    THEN action_patterns[k].category
    ELSE FirstCategory(filename, k + 1)

\* the unknown branch missing
CategoriesFor_noUnknown(filename) ==
    IF FirstCategory(filename, 1) # NotCategorized
    THEN <<FirstCategory(filename, 1)>>
    ELSE <<>>

\* the category lists one file (its lower-cased name) is appended to
CategoriesFor(filename) ==
    IF FirstCategory(filename, 1) # NotCategorized
    THEN <<FirstCategory(filename, 1)>>
    ELSE <<"unknown">>

\* str.replace(old, ''): every occurrence, left to right
RECURSIVE Remove(_, _)
Remove(str, old) ==
    IF Len(str) < Len(old) THEN str
    ELSE IF SubSeq(str, 1, Len(old)) = old
    THEN Remove(SubSeq(str, Len(old) + 1, Len(str)), old)
    ELSE <<Head(str)>> \o Remove(Tail(str), old)

\* str.split('_')
RECURSIVE Split(_, _)
Split(str, acc) ==
    IF str = <<>> THEN <<acc>>
    ELSE IF Head(str) = "_" THEN <<acc>> \o Split(Tail(str), <<>>)
    ELSE Split(Tail(str), Append(acc, Head(str)))

Digits == {"0","1","2","3","4","5","6","7","8","9"}

\* str.isdigit()
IsDigit(str) == str # <<>> /\ \A i \in 1..Len(str) : str[i] \in Digits

Suffix120    == <<"_","p","o","s","e","s","_","1","2","0","_","j","p","o","s",".","n","p","z">>
Suffix60     == <<"_","p","o","s","e","s","_","6","0","_","j","p","o","s",".","n","p","z">>
SuffixC3d120 == <<"_","c","3","d">> \o Suffix120
SuffixC3d60  == <<"_","c","3","d">> \o Suffix60

\* _extract_action_name
ExtractActionName(filename) ==
    LET stripped == Remove(Remove(Remove(Remove(filename, Suffix120), Suffix60),
                                  SuffixC3d120), SuffixC3d60)
        parts    == Split(stripped, <<>>)
        n        == Len(parts)
    IN  IF n >= 2
        THEN IF IsDigit(parts[n]) /\ n >= 3 THEN parts[n - 1] ELSE parts[n]
        ELSE stripped

\* defaultdict(list): d[key].append(file)
DictAppend(d, key, file) ==
    IF DictHas(d, key)
    THEN [d EXCEPT ![IndexOf(d, key)].files = Append(@, file)]
    ELSE Append(d, [name |-> key, files |-> <<file>>])

RECURSIVE DictAppendAll(_, _, _)
DictAppendAll(d, keys, file) ==
    IF keys = <<>> THEN d
    ELSE DictAppendAll(DictAppend(d, Head(keys), file), Tail(keys), file)

\* one round of the loop of _extract_action_info
ExtractOne(info, file) ==
    LET filename    == Lower(file.name)
        action_name == ExtractActionName(filename)
    IN  [info EXCEPT
           !.categories = DictAppendAll(@, CategoriesFor(filename), file),
           !.specific_actions =
               IF action_name # <<>> THEN DictAppend(@, action_name, file) ELSE @]

RECURSIVE ExtractLoop(_, _)
ExtractLoop(info, files) ==
    IF files = <<>> THEN info
    ELSE ExtractLoop(ExtractOne(info, Head(files)), Tail(files))

\* _extract_action_info
ExtractActionInfo(files) ==
    ExtractLoop([categories |-> <<>>, specific_actions |-> <<>>,
                 file_count |-> Len(files)], files)

\* the analyzer keeps no state: every run starts from the archive as laid out
Fresh == pc = "idle" /\ out = NoOutput

\* data_root / name exists
Exists(name) == root = "dir" /\ IndexOf(fs, name) # 0

\* the files analyze_dataset_actions collects: the motion files of each
\* subdirectory of the dataset, in enumeration order
CollectFiles(dataset_name) ==
    LET kids == IterDir(EntryAt(fs, <<dataset_name>>).kids)
        dirs == SelectSeq(kids, LAMBDA e : e.isdir)
    IN  Flatten([i \in 1..Len(dirs) |->
                    Glob(<<dataset_name, dirs[i].name>>, dirs[i].kids)])

\* analyze_dataset_actions(dataset_name)
AnalyzeDatasetActions(dataset_name) ==
    /\ Fresh
    /\ IF ~Exists(dataset_name)
       THEN /\ out' = [op |-> "analyze_dataset_actions", dataset |-> dataset_name,
                       status |-> "not_found"]
            /\ UNCHANGED raised
       ELSE IF ~EntryAt(fs, <<dataset_name>>).isdir
       THEN \* iterdir() of a file raises
            /\ out' = [op |-> "analyze_dataset_actions", dataset |-> dataset_name,
                       status |-> "raised"]
            /\ raised' = TRUE
       ELSE /\ out' = [op |-> "analyze_dataset_actions", dataset |-> dataset_name,
                       status |-> "analyzed",
                       files |-> CollectFiles(dataset_name),
                       info |-> ExtractActionInfo(CollectFiles(dataset_name))]
            /\ UNCHANGED raised
    /\ UNCHANGED <<root, hist, fs, datasets, pc, di, si, fi, warnings>>

\* files[:10] of list_all_datasets_actions
SampleSize == 10

\* the categories the loop of list_all_datasets_actions adds for one file:
\* its break leaves the pattern loop only, so every category that has a
\* pattern in the name is added
SampledCategories(filename) ==
    {action_patterns[k].category :
        k \in {j \in 1..Len(action_patterns) :
                  PatternHit(action_patterns[j].patterns, 1, filename)}}

\* the directories of data_root, by name
RootDatasets ==
    LET dirs == SelectSeq(IterDir(fs), LAMBDA e : e.isdir)
    IN  [i \in 1..Len(dirs) |-> [name |-> dirs[i].name]]

\* the line printed for one dataset
OverviewRow(dataset) ==
    LET files == Rglob(<<dataset>>, EntryAt(fs, <<dataset>>).kids)
    IN  [dataset |-> dataset,
         file_count |-> Len(files),
         action_types |-> UNION {SampledCategories(Lower(Prefix(files, SampleSize)[i].name)) :
                                   i \in 1..Len(Prefix(files, SampleSize))}]

\* list_all_datasets_actions
ListAllDatasetsActions ==
    /\ Fresh
    /\ IF root # "dir"
       THEN \* iterdir() raises
            /\ out' = [op |-> "list_all_datasets_actions", status |-> "raised"]
            /\ raised' = TRUE
       ELSE LET names == SortByName(RootDatasets)
                rows  == [i \in 1..Len(names) |-> OverviewRow(names[i].name)]
            IN  /\ out' = [op |-> "list_all_datasets_actions", status |-> "listed",
                           rows |-> SelectSeq(rows, LAMBDA r : r.file_count > 0)]
                /\ UNCHANGED raised
    /\ UNCHANGED <<root, hist, fs, datasets, pc, di, si, fi, warnings>>

\* an optional dataset_name: None or a name
NoDataset == [given |-> FALSE, name |-> <<>>]

Dataset(name) == [given |-> TRUE, name |-> name]

\* the test of the keyword against a file name, case kept
KeywordMatches_caseSensitive(action_keyword, name) ==
    Contains(name, action_keyword)

\* action_keyword.lower() in file_path.name.lower()
KeywordMatches(action_keyword, name) ==
    Contains(Lower(name), Lower(action_keyword))

\* the files of one dataset that find_specific_action appends
FoundIn(action_keyword, dataset) ==
    IF ~Exists(dataset) THEN <<>>
    ELSE LET files == Rglob(<<dataset>>, EntryAt(fs, <<dataset>>).kids)
             hits  == SelectSeq(files, LAMBDA f : KeywordMatches(action_keyword, f.name))
         IN  [i \in 1..Len(hits) |->
                [dataset |-> dataset, path |-> hits[i].path, name |-> hits[i].name]]

\* the datasets find_specific_action goes through
SearchedDatasets(dataset_name) ==
    IF dataset_name.given /\ dataset_name.name # <<>>
    THEN <<dataset_name.name>>
    ELSE [i \in 1..Len(RootDatasets) |-> RootDatasets[i].name]

\* the first 20 rows are printed
ShownFiles == 20

\* find_specific_action(action_keyword, dataset_name)
FindSpecificAction(action_keyword, dataset_name) ==
    /\ Fresh
    /\ IF ~(dataset_name.given /\ dataset_name.name # <<>>) /\ root # "dir"
       THEN \* iterdir() raises
            /\ out' = [op |-> "find_specific_action", keyword |-> action_keyword,
                       dataset |-> dataset_name, status |-> "raised",
                       found_files |-> <<>>, shown |-> <<>>]
            /\ raised' = TRUE
       ELSE LET ds == SearchedDatasets(dataset_name)
                found_files == Flatten([i \in 1..Len(ds) |-> FoundIn(action_keyword, ds[i])])
            IN  /\ out' = [op |-> "find_specific_action", keyword |-> action_keyword,
                           dataset |-> dataset_name,
                           status |-> IF found_files # <<>> THEN "found" ELSE "empty",
                           found_files |-> found_files,
                           shown |-> Prefix(found_files, ShownFiles)]
                /\ UNCHANGED raised
    /\ UNCHANGED <<root, hist, fs, datasets, pc, di, si, fi, warnings>>

-----------------------------------------------------------------------------
(* The analyzer's specification *)

\* file names of the analyzer's archive: one that matches two categories
\* (dance, daily) and needs lower-casing, one of one category, one of none
ActionNames ==
    { <<"D","a","n","c","e","_","W","a","l","k",".","n","p","z">>,
      <<"k","i","c","k",".","n","p","z">>,
      <<"i","d","l","e",".","n","p","z">> }

\* a directory below a subject
NestedNames == { <<"t","1">> }

Keywords == { <<"W","A","L","K">>, <<"k","i","c","k">>, <<"z","z">> }

\* motion files directly in a dataset, in a subject and below a subject
PopulateActions ==
    \/ \E n \in DatasetNames : Mkdir(<<>>, n)
    \/ \E d \in DatasetNames, n \in SubjectNames : Mkdir(<<d>>, n)
    \/ \E d \in DatasetNames, s \in SubjectNames, n \in NestedNames : Mkdir(<<d, s>>, n)
    \/ \E d \in DatasetNames, n \in ActionNames : CreateFile(<<d>>, n, NoContent)
    \/ \E d \in DatasetNames, s \in SubjectNames, n \in ActionNames \cup OtherNames :
          CreateFile(<<d, s>>, n, NoContent)
    \/ \E d \in DatasetNames, s \in SubjectNames, t \in NestedNames, n \in ActionNames :
          CreateFile(<<d, s, t>>, n, NoContent)

Analyze ==
    \/ \E d \in DatasetNames : AnalyzeDatasetActions(d)
    \/ ListAllDatasetsActions
    \/ \E k \in Keywords, d \in {NoDataset} \cup {Dataset(n) : n \in DatasetNames} :
          FindSpecificAction(k, d)

NextAnalyzer == PopulateActions \/ Analyze

SpecAnalyzer == Init /\ [][NextAnalyzer]_vars

-----------------------------------------------------------------------------
(* What is on disk, read off the archive itself *)

\* a scan has run to its return (and perhaps a query after it)
Completed == root = "dir" /\ pc = "idle" /\ out.op # "none"

\* the dataset directories of the archive, and the subject directories of
\* one that hold motion files
DatasetDirs == {d \in 1..Len(fs) : fs[d].isdir}

SubjectDirs(d) ==
    {s \in 1..Len(fs[d].kids) :
        fs[d].kids[s].isdir /\ Glob(<<>>, fs[d].kids[s].kids) # <<>>}

\* the motion files of a subject directory in enumeration order, and those
\* among them a read succeeds on
MotionFiles(d, s) ==
    SelectSeq(fs[d].kids[s].kids, LAMBDA e : MatchesNpz(e.name))

ReadableFiles(d, s) ==
    SelectSeq(MotionFiles(d, s), LAMBDA e : ~ReadRaises(e.content))

\* the readable motion files of a dataset directory
DiskEntries(d) ==
    {[subject |-> fs[d].kids[s].name, file |-> e.name, content |-> e.content] :
        <<s, e>> \in UNION {{<<s, ReadableFiles(d, s)[i]>> :
                               i \in 1..Len(ReadableFiles(d, s))} : s \in SubjectDirs(d)}}

DurationOf(c) == Quot(c.frames, c.fps)

IsSortedNames(names) ==
    \A i \in 1..(Len(names) - 1) : StrLeq(names[i], names[i + 1])

-----------------------------------------------------------------------------
(* C1 *)

\* C1: a scan of an existing root never raises and never stops before its
\* return, whatever the read outcomes of the files (in each loop a next step
\* can be taken: the next entry, the next file whatever its read does, or
\* the end of the loop); and when it has returned,
\* every subject directory with motion files is indexed under its dataset
\* and holds the frame count, duration and size of every file whose read
\* succeeded, wherever the failed files sit among them.
C1_PartialFailureTolerance ==
    /\ (root = "dir" /\ out.op = "scan_datasets") => ~raised
    /\ pc = "root" => ENABLED (ScanDataset \/ ScanReturn)
    /\ pc = "dataset" => ENABLED (ScanSubject \/ ScanDatasetDone)
    /\ pc = "subject" => (fi < Len(CurSubject.files) \/ ENABLED ScanSubjectDone)
    /\ Completed =>
         \A d \in DatasetDirs :
            /\ DictHas(datasets, fs[d].name)
            /\ \A s \in SubjectDirs(d) :
                 LET ds == DictGet(datasets, fs[d].name)
                     ok == ReadableFiles(d, s)
                 IN  /\ DictHas(ds.subjects, fs[d].kids[s].name)
                     /\ LET sj == DictGet(ds.subjects, fs[d].kids[s].name)
                        IN  /\ sj.frames = [i \in 1..Len(ok) |-> ok[i].content.frames]
                            /\ sj.durations = [i \in 1..Len(ok) |-> DurationOf(ok[i].content)]
                            /\ sj.file_sizes = [i \in 1..Len(ok) |-> FileSizeMB(ok[i].content)]

\* a scan has returned on a subject whose first file failed to read and whose
\* second file was read and indexed
C1_Witness ==
    /\ Completed
    /\ \E d \in DatasetDirs : \E s \in SubjectDirs(d) :
         /\ Len(MotionFiles(d, s)) = 2
         /\ ReadRaises(MotionFiles(d, s)[1].content)
         /\ ~ReadRaises(MotionFiles(d, s)[2].content)
         /\ Len(warnings) = 1
         /\ Len(DictGet(DictGet(datasets, fs[d].name).subjects,
                        fs[d].kids[s].name).frames) = 1

-----------------------------------------------------------------------------
(* C4 *)

\* C4: after a scan, for every dataset, total_frames is the sum of the frame
\* counts of its successfully read files, and total_files is the number of
\* all its scanned motion files, those whose read failed included.
C4_DatasetTotals ==
    Completed =>
      \A d \in DatasetDirs :
         LET ds == DictGet(datasets, fs[d].name)
         IN  /\ ds.total_frames =
                  SumSeq([e \in 1..Len(ds.subjects) |-> SumSeq(ds.subjects[e].frames)])
             /\ \A s \in SubjectDirs(d) :
                  SumSeq(DictGet(ds.subjects, fs[d].kids[s].name).frames) =
                  SumSeq([i \in 1..Len(ReadableFiles(d, s)) |->
                             ReadableFiles(d, s)[i].content.frames])
             /\ ds.total_files =
                  SumSeq([e \in 1..Len(ds.subjects) |-> Len(ds.subjects[e].files)])
             /\ \A s \in SubjectDirs(d) :
                  Len(DictGet(ds.subjects, fs[d].kids[s].name).files) =
                  Len(MotionFiles(d, s))

-----------------------------------------------------------------------------
(* C5 *)

\* the (subject, file) pairs a duration query of dataset d should report
InRangeOnDisk(d, range) ==
    {[subject |-> e.subject, file |-> e.file] :
        e \in {x \in DiskEntries(d) : InRange(range, DurationOf(x.content))}}

\* C5: find_similar_motions with a range (min, max) on an existing dataset
\* reports exactly the successfully read files of that dataset whose
\* duration lies in [min, max], both ends included, each once, in
\* non-decreasing order of duration; a file whose read failed is never
\* reported.
C5_FindByDuration ==
    (/\ out.op = "find_similar_motions"
     /\ out.status # "not_found"
     /\ ~out.range.none) =>
      LET d == IndexOf(fs, out.dataset)
      IN  /\ {[subject |-> out.rows[i].subject, file |-> out.rows[i].file] :
                i \in 1..Len(out.rows)} = InRangeOnDisk(d, out.range)
          /\ Len(out.rows) = Cardinality(InRangeOnDisk(d, out.range))
          /\ \A i \in 1..(Len(out.rows) - 1) :
                QLeq(out.rows[i].duration, out.rows[i + 1].duration)

-----------------------------------------------------------------------------
(* C7 *)

\* C7: the index a scan leaves lists the datasets in ascending name order,
\* the subjects of each dataset in ascending name order and the files of
\* each subject in ascending name order, whatever order the file system
\* enumerates the directories in.
C7_CanonicalOrder ==
    Completed =>
      /\ IsSortedNames([i \in 1..Len(datasets) |-> datasets[i].name])
      /\ \A i \in 1..Len(datasets) :
           /\ IsSortedNames([j \in 1..Len(datasets[i].subjects) |->
                                datasets[i].subjects[j].name])
           /\ \A j \in 1..Len(datasets[i].subjects) :
                IsSortedNames([k \in 1..Len(datasets[i].subjects[j].files) |->
                                  datasets[i].subjects[j].files[k].name])

-----------------------------------------------------------------------------
(* C8 *)

\* the durations on disk that the options given on the command line admit
Admitted(d, dmin, dmax) ==
    {e \in DiskEntries(d) :
        /\ dmin.given => QLeq(Quot(dmin.val, 1), DurationOf(e.content))
        /\ dmax.given => QLeq(DurationOf(e.content), Quot(dmax.val, 1))}

\* C8: every bound given on the command line (0 included) restricts the
\* result and a bound not given leaves its side open: the durations reported
\* are those of the successfully read files that lie within the given bounds.
C8_BoundHandling ==
    (out.op = "main_find" /\ out.status # "not_found") =>
      LET d   == IndexOf(fs, out.dataset)
          adm == Admitted(d, out.duration_min, out.duration_max)
      IN  /\ Len(out.rows) = Cardinality(adm)
          /\ \A q \in {DurationOf(e.content) : e \in DiskEntries(d)} :
                Cardinality({i \in 1..Len(out.rows) : out.rows[i].duration = q})
                = Cardinality({e \in adm : DurationOf(e.content) = q})

-----------------------------------------------------------------------------
(* The rule table and the archive, read declaratively *)

\* some pattern of category k occurs in the (lower-cased) name
AnyPatternIn(lname, k) ==
    \E i \in 1..Len(action_patterns[k].patterns) :
       Contains(lname, action_patterns[k].patterns[i])

Labels == {action_patterns[k].category : k \in 1..Len(action_patterns)}

\* the groups of an action_info that hold a file, and how often they hold it
GroupsOf(info, file) ==
    {info.categories[g].name :
        g \in {h \in 1..Len(info.categories) :
                  \E i \in 1..Len(info.categories[h].files) :
                     info.categories[h].files[i] = file}}

Occurrences(info, file) ==
    SumSeq([g \in 1..Len(info.categories) |->
              Cardinality({i \in 1..Len(info.categories[g].files) :
                              info.categories[g].files[i] = file})])

Analyzed == out.op = "analyze_dataset_actions" /\ out.status = "analyzed"

\* the paths of the motion files anywhere below a directory
RECURSIVE NpzPathsUnder(_, _)
NpzPathsUnder(prefix, kids) ==
    UNION { IF kids[i].isdir
            THEN NpzPathsUnder(Append(prefix, kids[i].name), kids[i].kids)
            ELSE IF MatchesNpz(kids[i].name) THEN {Append(prefix, kids[i].name)}
            ELSE {} : i \in 1..Len(kids) }

\* the keyword occurs in the name, letter case aside
OccursIgnoringCase(keyword, name) ==
    \E i \in 0..(Len(name) - Len(keyword)) :
       \A j \in 1..Len(keyword) : LowerChar(name[i + j]) = LowerChar(keyword[j])

-----------------------------------------------------------------------------
(* C2 *)

\* C2: the category _extract_action_info gives a file is the first category,
\* in the declaration order of action_patterns, one of whose patterns occurs
\* in the lower-cased file name; a name with patterns of two categories is in
\* the group of the earlier one only.
C2_FirstMatch ==
    Analyzed =>
      \A i \in 1..Len(out.files) : \A k \in 1..Len(action_patterns) :
         (/\ AnyPatternIn(Lower(out.files[i].name), k)
          /\ \A j \in 1..(k - 1) : ~AnyPatternIn(Lower(out.files[i].name), j))
         => GroupsOf(out.info, out.files[i]) = {action_patterns[k].category}

\* a file whose name holds patterns of two categories has been classified
C2_Witness ==
    /\ Analyzed
    /\ \E i \in 1..Len(out.files) : \E k1, k2 \in 1..Len(action_patterns) :
         /\ k1 < k2
         /\ AnyPatternIn(Lower(out.files[i].name), k1)
         /\ AnyPatternIn(Lower(out.files[i].name), k2)
         /\ action_patterns[k1].category \in GroupsOf(out.info, out.files[i])

-----------------------------------------------------------------------------
(* C3 *)

\* C3: after _extract_action_info every file is in exactly one category
\* group, the group is a label of the rule table or "unknown", the file is
\* in "unknown" exactly when no pattern of any rule occurs in its lower-cased
\* name, and the group sizes sum to file_count.
C3_ExactlyOneCategory ==
    Analyzed =>
      /\ \A i \in 1..Len(out.files) :
           /\ Occurrences(out.info, out.files[i]) = 1
           /\ GroupsOf(out.info, out.files[i]) \subseteq Labels \cup {"unknown"}
           /\ ("unknown" \in GroupsOf(out.info, out.files[i])
                 <=> \A k \in 1..Len(action_patterns) :
                        ~AnyPatternIn(Lower(out.files[i].name), k))
      /\ out.info.file_count = Len(out.files)
      /\ SumSeq([g \in 1..Len(out.info.categories) |->
                   Len(out.info.categories[g].files)]) = out.info.file_count

\* files of a labelled category and of no category have been classified
C3_Witness ==
    /\ Analyzed
    /\ \E i, j \in 1..Len(out.files) :
         /\ "unknown" \in GroupsOf(out.info, out.files[i])
         /\ GroupsOf(out.info, out.files[j]) \cap Labels # {}

-----------------------------------------------------------------------------
(* C6 *)

\* the dataset a query names, when it names one
AsksDataset ==
    \/ out.op \in {"explore_dataset", "find_similar_motions", "main_find",
                   "analyze_dataset_actions"}
    \/ out.op = "find_specific_action" /\ out.dataset.given

AskedDataset ==
    IF out.op = "find_specific_action" THEN out.dataset.name ELSE out.dataset

\* C6: a query that names a dataset absent from the archive ends in the
\* not-found outcome, never in the outcome it gives for a dataset that is
\* present and has no matching files.
C6_NotFoundDistinct ==
    (root = "dir" /\ AsksDataset /\ IndexOf(fs, AskedDataset) = 0)
       => out.status = "not_found"

-----------------------------------------------------------------------------
(* C9 *)

\* the (dataset, path) pairs a keyword search should return
KeywordHits(keyword, dataset_name) ==
    LET searched == IF dataset_name.given
                    THEN {d \in DatasetDirs : fs[d].name = dataset_name.name}
                    ELSE DatasetDirs
    IN  {[dataset |-> fs[d].name, path |-> p] :
            <<d, p>> \in UNION {{<<d, q>> : q \in
                                   {r \in NpzPathsUnder(<<fs[d].name>>, fs[d].kids) :
                                       OccursIgnoringCase(keyword, r[Len(r)])}} :
                                d \in searched}}

\* C9: find_specific_action collects exactly the (dataset, file) pairs whose
\* file name holds the keyword, letter case aside, of the named dataset when
\* one is named and of all datasets otherwise, each once.
C9_FindByKeyword ==
    (out.op = "find_specific_action" /\ out.status # "raised") =>
      /\ {[dataset |-> out.found_files[i].dataset, path |-> out.found_files[i].path] :
            i \in 1..Len(out.found_files)} = KeywordHits(out.keyword, out.dataset)
      /\ Len(out.found_files) = Cardinality(KeywordHits(out.keyword, out.dataset))
      /\ \A i \in 1..Len(out.found_files) :
           out.found_files[i].name = out.found_files[i].path[Len(out.found_files[i].path)]

\* a search of a named dataset found a file whose name holds the keyword in
\* another letter case, and left out a matching file of another dataset
C9_Witness ==
    /\ out.op = "find_specific_action"
    /\ out.dataset.given
    /\ \E i \in 1..Len(out.found_files) :
         ~Contains(out.found_files[i].name, out.keyword)
    /\ KeywordHits(out.keyword, NoDataset) # KeywordHits(out.keyword, out.dataset)

-----------------------------------------------------------------------------
(* C10 *)

\* C10: the categories list_all_datasets_actions reports for a dataset come
\* from its first SampleSize files only, and each is a category that the
\* classifier of _extract_action_info (first match) gives to one of them.
C10_SampleCategories ==
    (out.op = "list_all_datasets_actions" /\ out.status = "listed") =>
      \A r \in 1..Len(out.rows) :
         LET files  == Rglob(<<out.rows[r].dataset>>,
                             EntryAt(fs, <<out.rows[r].dataset>>).kids)
             sample == Prefix(files, SampleSize)
         IN  /\ out.rows[r].action_types \subseteq
                  {action_patterns[k].category :
                     k \in {j \in 1..Len(action_patterns) :
                               \E i \in 1..Len(sample) :
                                  AnyPatternIn(Lower(sample[i].name), j)}}
             /\ out.rows[r].action_types \subseteq
                  {FirstCategory(Lower(sample[i].name), 1) : i \in 1..Len(sample)}

-----------------------------------------------------------------------------
(* C11 *)

ScanningOps == {"scan_datasets", "list_all_datasets_actions", "find_specific_action"}

\* C11: when data_root does not exist or is not a directory, scan_datasets,
\* list_all_datasets_actions and find_specific_action (with or without a
\* dataset name) end in an error, not in an empty result, and no index is
\* left behind.
C11_FailFast ==
    (root # "dir" /\ out.op \in ScanningOps) =>
       /\ raised
       /\ out.status = "raised"
       /\ datasets = <<>>

-----------------------------------------------------------------------------
(* C12 *)

\* the subjects of the index that hold motion files none of which was read
Unread(sj) == sj.files # <<>> /\ sj.durations = <<>>

Zero == Quot(0, 1)

RECURSIVE Gcd(_, _)
Gcd(a, b) == IF b = 0 THEN a ELSE Gcd(b, a % b)

\* a quotient in lowest terms
Reduced(q) == Quot(q.num \div Gcd(q.num, q.den), q.den \div Gcd(q.num, q.den))

\* m is the mean of the quotients qs (qs not empty): Len(qs) times m is
\* their sum
IsMeanOf(m, qs) ==
    /\ m.den # 0
    /\ Reduced(Quot(m.num * Len(qs), m.den)) = Reduced(QSum(qs))

\* C12: explore_dataset of an indexed dataset ends without an error and
\* reports the first max_subjects subjects of the dataset (all of them when
\* there are fewer), each with its file count and total frames; a subject
\* with motion files of which none was read shows a mean duration and a mean
\* size that are undefined (nan) or zero, every other subject the means of
\* its read files.
C12_ExploreUnreadSubject ==
    (out.op = "explore_dataset" /\ DictHas(datasets, out.dataset)) =>
      LET subjects == DictGet(datasets, out.dataset).subjects
          n        == IF Len(subjects) < out.max_subjects
                      THEN Len(subjects) ELSE out.max_subjects
      IN  /\ ~raised
          /\ out.status = "shown"
          /\ Len(out.rows) = n
          /\ \A i \in 1..n :
               /\ out.rows[i].subject = subjects[i].name
               /\ out.rows[i].file_count = Len(subjects[i].files)
               /\ out.rows[i].total_frames = SumSeq(subjects[i].frames)
               /\ IF Unread(subjects[i])
                  THEN /\ out.rows[i].mean_duration \in {NaN, Zero}
                       /\ out.rows[i].mean_size \in {NaN, Zero}
                  ELSE /\ IsMeanOf(out.rows[i].mean_duration, subjects[i].durations)
                       /\ IsMeanOf(out.rows[i].mean_size, subjects[i].file_sizes)

\* explore_dataset has reported a subject none of whose files was read and,
\* after it, a subject with a read file
C12_Witness ==
    /\ out.op = "explore_dataset"
    /\ out.status = "shown"
    /\ Len(out.rows) >= 2
    /\ \E i, j \in 1..Len(out.rows) :
         /\ i < j
         /\ Unread(DictGet(datasets, out.dataset).subjects[i])
         /\ out.rows[i].mean_duration = NaN
         /\ out.rows[j].mean_duration # NaN

-----------------------------------------------------------------------------
(* C13 *)

\* C13: once a call of scan_datasets has returned, the index is, whenever no
\* call is running (after every later call, and after every print_summary,
\* explore_dataset and find_similar_motions in between), the index that the
\* first call returned: the same datasets and subjects with the same lists
\* and the same total_files and total_frames.
C13_RebuildIdempotence ==
    (hist.returned /\ pc = "idle") => datasets = hist.first

\* a later call of scan_datasets has gone through the whole archive again,
\* files that fail and files that are read included, and stands at its return
C13_Witness ==
    /\ hist.returned
    /\ pc = "root"
    /\ di = Len(IterDir(fs))
    /\ warnings # <<>>
    /\ \E i \in 1..Len(datasets) :
         /\ datasets[i].total_files > 0
         /\ Len(datasets[i].subjects) >= 2

-----------------------------------------------------------------------------
(* C14 *)

\* the values a read of the file at a path gives, when the read succeeds
ReadOf(path) == EntryAt(fs, path).content

\* a reported row names a file and carries the values read from that file
RowOfItsFile(dataset, subject, file, duration, frames) ==
    LET c == ReadOf(<<dataset, subject, file>>)
    IN  /\ ~ReadRaises(c)
        /\ duration = DurationOf(c)
        /\ frames = c.frames

\* C14: after a scan, durations[i], frames[i] and file_sizes[i] of every
\* subject are the values read from files[i]; every row find_similar_motions
\* reports and every row export_summary_csv writes pairs a file name with the
\* duration and frame count of that file, and export_summary_csv writes its
\* rows also when a file of the index failed to read.
C14_FileMetadataAlignment ==
    /\ Completed =>
         \A d \in 1..Len(datasets) : \A j \in 1..Len(datasets[d].subjects) :
            LET sj == datasets[d].subjects[j]
            IN  \A i \in 1..Len(sj.durations) :
                   LET c == ReadOf(sj.files[i].path)
                   IN  /\ ~ReadRaises(c)
                       /\ sj.durations[i] = DurationOf(c)
                       /\ sj.frames[i] = c.frames
                       /\ sj.file_sizes[i] = FileSizeMB(c)
    /\ (out.op \in {"find_similar_motions", "main_find"} /\ out.status = "found") =>
         \A r \in 1..Len(out.rows) :
            RowOfItsFile(out.dataset, out.rows[r].subject, out.rows[r].file,
                         out.rows[r].duration, out.rows[r].frames)
    /\ out.op = "export_summary_csv" =>
         /\ out.status = "exported"
         /\ \A r \in 1..Len(out.rows) :
               RowOfItsFile(out.rows[r].dataset, out.rows[r].subject,
                            out.rows[r].filename, out.rows[r].duration,
                            out.rows[r].frames)

-----------------------------------------------------------------------------
(* C15 *)

\* the counts of one dataset entry agree with the lists of its subjects
Accounted(ds) ==
    /\ \A j \in 1..Len(ds.subjects) :
          /\ Len(ds.subjects[j].frames) = Len(ds.subjects[j].durations)
          /\ Len(ds.subjects[j].frames) = Len(ds.subjects[j].file_sizes)
    /\ ds.total_files =
          SumSeq([j \in 1..Len(ds.subjects) |-> Len(ds.subjects[j].frames)])
    /\ ds.total_frames =
          SumSeq([j \in 1..Len(ds.subjects) |-> SumSeq(ds.subjects[j].frames)])
    /\ Len(ds.file_sizes) = ds.total_files

\* the step of the inner loop on a file whose read raises
FailedRead ==
    /\ pc = "subject"
    /\ fi < Len(CurSubject.files)
    /\ fi' = fi + 1
    /\ ReadRaises(ReadOf(CurSubject.files[fi + 1].path))

\* C15: between any two file reads of scan_datasets (and before the first
\* and after the last), every dataset entry is accounted for: the frames,
\* durations and file_sizes lists of each subject have the same length,
\* total_files is the sum of those lengths, total_frames the sum of all
\* frames entries and the dataset's file_sizes list has total_files entries;
\* and a read that raises leaves the whole index as it was.
C15_PerFileAccounting ==
    /\ [](\A d \in 1..Len(datasets) : Accounted(datasets[d]))
    /\ [][FailedRead => datasets' = datasets]_vars

\* a scan stands in the loop over the files of a subject, the read just made
\* having raised and an earlier read of the same subject having been counted
C15_Witness ==
    /\ pc = "subject"
    /\ fi >= 2
    /\ warnings # <<>>
    /\ warnings[Len(warnings)] = CurSubject.files[fi].path
    /\ Len(CurSubject.frames) >= 1
    /\ DictGet(datasets, CurDataset.name).total_files >= 1

-----------------------------------------------------------------------------
(* C16 *)

\* the paths of the motion files that lie directly in a subject directory
\* (a directory directly in the dataset directory) of a dataset
SubjectLevelFiles(dataset) ==
    IF IndexOf(fs, dataset) = 0 THEN {}
    ELSE LET kids == fs[IndexOf(fs, dataset)].kids
         IN  {<<dataset, kids[s].name, kids[s].kids[f].name>> :
                <<s, f>> \in {<<s, f>> \in (1..Len(kids)) \X (1..MaxEntries) :
                                 /\ kids[s].isdir
                                 /\ f <= Len(kids[s].kids)
                                 /\ ~kids[s].kids[f].isdir
                                 /\ MatchesNpz(kids[s].kids[f].name)}}

\* C16: keyword search and the category overview consider, for a dataset,
\* the same motion files as analyze_dataset_actions and scan_datasets: those
\* directly in a subject directory of the dataset, and none that lie directly
\* in the dataset directory or deeper.
C16_SameFileSet ==
    /\ Analyzed =>
         {out.files[i].path : i \in 1..Len(out.files)} = SubjectLevelFiles(out.dataset)
    /\ \A d \in 1..Len(datasets) :
         UNION {{datasets[d].subjects[j].files[i].path :
                    i \in 1..Len(datasets[d].subjects[j].files)} :
                j \in 1..Len(datasets[d].subjects)}
         \subseteq SubjectLevelFiles(datasets[d].name)
    /\ (out.op = "find_specific_action" /\ out.status # "raised") =>
         \A i \in 1..Len(out.found_files) :
            out.found_files[i].path \in SubjectLevelFiles(out.found_files[i].dataset)
    /\ (out.op = "list_all_datasets_actions" /\ out.status = "listed") =>
         \A r \in 1..Len(out.rows) :
            out.rows[r].file_count = Cardinality(SubjectLevelFiles(out.rows[r].dataset))

=============================================================================
